---------------------------- MODULE Spec2Model ----------------------------
(***************************************************************************)
(* A model of package maildir (src/maildir.go): the key generator Key and  *)
(* the operations of a Dir (Unseen, Keys, Filename, Flags, SetInfo) on the *)
(* "new" and "cur" subdirectories of one mailbox.                          *)
(*                                                                         *)
(* Go strings are modelled as sequences of one-character strings, so that  *)
(* splitting, prefix matching, concatenation and sorting are computed      *)
(* character by character as the code computes them.                       *)
(***************************************************************************)
EXTENDS Integers, Sequences, FiniteSets, TLC

(***************************************************************************)
(* Bounds of the model.                                                    *)
(***************************************************************************)
\* Number of concurrent calls of Key in one process.
NumCalls == 2
\* Number of times the clock may advance by one second during the calls.
MaxTick == 1
\* Longest info section of the file the flag codec is run on.
MaxInfoLen == 3
\* Largest number of flag letters written by one SetInfo(key, "2," + F).
MaxFlags == 2

(***************************************************************************)
(* Characters and strings.                                                 *)
(***************************************************************************)
\* The code point of every character the model uses (ASCII).
Code(c) ==
    CASE c = "," -> 44 [] c = "." -> 46 [] c = "/" -> 47
      [] c = "0" -> 48 [] c = "1" -> 49 [] c = "2" -> 50 [] c = "3" -> 51
      [] c = "4" -> 52 [] c = "5" -> 53 [] c = "6" -> 54 [] c = "7" -> 55
      [] c = "8" -> 56 [] c = "9" -> 57 [] c = ":" -> 58 [] c = ";" -> 59
      [] c = "F" -> 70 [] c = "R" -> 82 [] c = "S" -> 83 [] c = "T" -> 84
      [] c = "a" -> 97 [] c = "b" -> 98 [] c = "c" -> 99 [] c = "d" -> 100
      [] c = "e" -> 101 [] c = "f" -> 102 [] c = "h" -> 104 [] c = "m" -> 109
      [] c = "r" -> 114 [] c = "t" -> 116 [] c = "u" -> 117 [] c = "x" -> 120

\* The digits of strconv.FormatInt(_, 10) and of hex.EncodeToString.
Digits == <<"0", "1", "2", "3", "4", "5", "6", "7", "8", "9",
            "a", "b", "c", "d", "e", "f">>

RECURSIVE FormatInt(_)
\* strconv.FormatInt(n, 10) for n >= 0 (timestamps, pids and the counter are
\* never negative here).
FormatInt(n) ==
    IF n < 10 THEN <<Digits[n + 1]>>
    ELSE FormatInt(n \div 10) \o <<Digits[(n % 10) + 1]>>

RECURSIVE EncodeToString(_)
\* hex.EncodeToString(bs): two lower-case hexadecimal digits per byte.
EncodeToString(bs) ==
    IF bs = <<>> THEN <<>>
    ELSE <<Digits[(Head(bs) \div 16) + 1], Digits[(Head(bs) % 16) + 1]>>
         \o EncodeToString(Tail(bs))

RECURSIVE Replace(_, _, _)
\* strings.Replace(s, old, new, -1) for a one-character old.
Replace(s, old, new) ==
    IF s = <<>> THEN <<>>
    ELSE (IF Head(s) = old THEN new ELSE <<Head(s)>>) \o Replace(Tail(s), old, new)

\* strings.HasPrefix(s, prefix).
HasPrefix(s, prefix) ==
    /\ Len(prefix) <= Len(s)
    /\ SubSeq(s, 1, Len(prefix)) = prefix

RECURSIVE Fields(_, _, _, _)
\* The loop of strings.FieldsFunc: field is the field being read, out the
\* fields read so far; a separator ends a field, and an empty field is
\* dropped.
Fields(s, sep, field, out) ==
    IF s = <<>> THEN (IF field = <<>> THEN out ELSE Append(out, field))
    ELSE IF Head(s) = sep
         THEN Fields(Tail(s), sep, <<>>,
                     IF field = <<>> THEN out ELSE Append(out, field))
         ELSE Fields(Tail(s), sep, Append(field, Head(s)), out)

\* strings.FieldsFunc(s, func(r rune) bool { return r == sep }): the maximal
\* runs of characters other than sep; never an empty field.
FieldsFunc(s, sep) == Fields(s, sep, <<>>, <<>>)

RECURSIVE Insert(_, _)
\* c put into the ascending sequence s, by runeSlice.Less (s[i] < s[j]).
Insert(c, s) ==
    IF s = <<>> THEN <<c>>
    ELSE IF Code(c) < Code(Head(s)) THEN <<c>> \o s
         ELSE <<Head(s)>> \o Insert(c, Tail(s))

\* A slip in Flags: the flags are returned as they stand in the name.
Unsorted(s) == s

RECURSIVE SortRunes(_)
\* sort.Sort(runeSlice(s)): s in ascending order of code points.
SortRunes(s) ==
    IF s = <<>> THEN <<>> ELSE Insert(Head(s), SortRunes(Tail(s)))

\* The orders in which Readdirnames may list the names in S.
Listings(S) ==
    {f \in [1 .. Cardinality(S) -> S] : \A x \in S : \E i \in DOMAIN f : f[i] = x}

\* The nil error, and the errors of the operating system.
Nil == [type |-> "nil"]
IOFailure(op, path) == [type |-> "IOFailure", op |-> op, path |-> path]

(***************************************************************************)
(* The key generator: func Key() (string, error).                          *)
(***************************************************************************)
VARIABLES
    id,         \* var id int64: the process-local counter
    now,        \* the clock, in seconds: time.Now().Unix()
    kpc,        \* kpc[g]: the position of call g in Key
    key,        \* key[g]: the local variable key of call g
    hostErr,    \* hostErr[g]: the error os.Hostname returned to call g
    readErr,    \* readErr[g]: the error io.ReadFull returned to call g
    idRead,     \* idRead[g]: the value of id call g formatted into its key
    kret        \* kret[g]: what call g returned, [key, err]

keyVars == <<id, now, kpc, key, hostErr, readErr, idRead, kret>>

\* The calls of Key, each on a goroutine of its own.
Calls == 1 .. NumCalls

\* var id int64 = 10000
InitialId == 10000
\* The second in which the calls start.
Epoch == 1000
\* os.Getpid(): one process, so the same value in every call.
Pid == 7
\* bs := make([]byte, 10)
RandLen == 10

\* What os.Hostname can return: a host name and no error, or "" and an error.
Hostnames == {<<"h">>, <<"h", "/", ":">>}
HostnameResults ==
    {[host |-> h, err |-> Nil] : h \in Hostnames}
    \cup {[host |-> <<>>, err |-> IOFailure("hostname", <<>>)]}

\* What io.ReadFull(rand.Reader, bs) can leave in bs: the random source may
\* give any bytes, the same ones twice included.
RandomBlocks == {[i \in 1 .. RandLen |-> b] : b \in {0, 171}}
ReadFullResults ==
    {[bs |-> r, err |-> Nil] : r \in RandomBlocks}
    \cup {[bs |-> [i \in 1 .. RandLen |-> 0], err |-> IOFailure("read", <<>>)]}

\* The replacement strings "\057" and "\072" of lines 212-213: in a Go
\* interpreted string literal an octal escape is the byte itself, so "\057"
\* is the one-character string "/" and "\072" is ":".
Octal057 == <<"/">>
Octal072 == <<":">>

\* host = strings.Replace(host, "/", "\057", -1)
\* host = strings.Replace(host, ":", "\072", -1)
EscapeHost(host) == Replace(Replace(host, "/", Octal057), ":", Octal072)

\* if err != err { return "", err }: the condition of line 209 compares err
\* with itself.
HostnameFailed(err) == err # err

InitKey ==
    /\ id = InitialId
    /\ now = Epoch
    /\ kpc = [g \in Calls |-> "start"]
    /\ key = [g \in Calls |-> <<>>]
    /\ hostErr = [g \in Calls |-> Nil]
    /\ readErr = [g \in Calls |-> Nil]
    /\ idRead = [g \in Calls |-> 0]
    /\ kret = [g \in Calls |-> [key |-> <<>>, err |-> Nil]]

\* The clock advances.
Tick ==
    /\ now < Epoch + MaxTick
    /\ now' = now + 1
    /\ UNCHANGED <<id, kpc, key, hostErr, readErr, idRead, kret>>

\* Lines 205-216: the timestamp, the host and the pid.
KeyPrefix(g) ==
    /\ kpc[g] = "start"
    /\ \E h \in HostnameResults :
        /\ hostErr' = [hostErr EXCEPT ![g] = h.err]
        /\ IF HostnameFailed(h.err)
           THEN /\ kpc' = [kpc EXCEPT ![g] = "done"]
                /\ kret' = [kret EXCEPT ![g] = [key |-> <<>>, err |-> h.err]]
                /\ UNCHANGED key
           ELSE /\ kpc' = [kpc EXCEPT ![g] = "readid"]
                /\ key' = [key EXCEPT ![g] =
                      FormatInt(now) \o <<".">> \o EscapeHost(h.host) \o <<".">>
                      \o FormatInt(Pid)]
                /\ UNCHANGED kret
    /\ UNCHANGED <<id, now, readErr, idRead>>

\* Line 217: key += strconv.FormatInt(id, 10), a plain read of id.  The read
\* is not synchronised with the atomic add of another call; the values in the
\* model fit the low word, so a read sees a value id has held.
KeyReadId(g) ==
    /\ kpc[g] = "readid"
    /\ idRead' = [idRead EXCEPT ![g] = id]
    /\ key' = [key EXCEPT ![g] = @ \o FormatInt(id)]
    /\ kpc' = [kpc EXCEPT ![g] = "addid"]
    /\ UNCHANGED <<id, now, hostErr, readErr, kret>>

\* Line 218: atomic.AddInt64(&id, 1).
KeyAddId(g) ==
    /\ kpc[g] = "addid"
    /\ id' = id + 1
    /\ kpc' = [kpc EXCEPT ![g] = "random"]
    /\ UNCHANGED <<now, key, hostErr, readErr, idRead, kret>>

\* Lines 219-225: the random bytes and the return.
KeyRandom(g) ==
    /\ kpc[g] = "random"
    /\ \E r \in ReadFullResults :
        /\ readErr' = [readErr EXCEPT ![g] = r.err]
        /\ IF r.err # Nil
           THEN /\ kret' = [kret EXCEPT ![g] = [key |-> <<>>, err |-> r.err]]
                /\ UNCHANGED key
           ELSE /\ key' = [key EXCEPT ![g] = @ \o EncodeToString(r.bs)]
                /\ kret' = [kret EXCEPT ![g] =
                                [key |-> key'[g], err |-> Nil]]
    /\ kpc' = [kpc EXCEPT ![g] = "done"]
    /\ UNCHANGED <<id, now, hostErr, idRead>>

KeyStep ==
    \E g \in Calls : KeyPrefix(g) \/ KeyReadId(g) \/ KeyAddId(g) \/ KeyRandom(g)

(***************************************************************************)
(* The mailbox: the files of <d>/new and <d>/cur, and the processes that   *)
(* call the methods of Dir on it.                                          *)
(***************************************************************************)
VARIABLES
    Separator,  \* var Separator rune
    new,        \* new[n]: the message held by the file <d>/new/<n>
    cur,        \* cur[n]: the message held by the file <d>/cur/<n>
    delivered,  \* the messages that were delivered to the mailbox
    pc,         \* pc[p]: the position of process p in the method it runs
    op,         \* op[p]: the method process p runs or has last run
    keyArg,     \* keyArg[p]: the parameter key
    infoArg,    \* infoArg[p]: the parameter info
    names,      \* names[p]: the listing Readdirnames returned to Unseen
    idx,        \* idx[p]: the position of Unseen's loop in names[p]
    keys,       \* keys[p]: the local variable keys
    err,        \* err[p]: the local variable err
    filename,   \* filename[p]: the local variable filename
    failed,     \* failed[p]: the names whose rename failed in p's call of Unseen
    ret         \* ret[p]: what the last method returned to p, [val, err]

dirVars == <<Separator, new, cur, delivered>>
procVars == <<pc, op, keyArg, infoArg, names, idx, keys, err, filename, failed, ret>>

Procs == {"p1", "p2"}

\* var Separator rune = ':'
DefaultSeparator == ":"

\* The Dir d the methods are called on, and its subdirectories.
d == <<"m">>
NewPath(n) == d \o <<"/", "n", "e", "w", "/">> \o n
CurPath(n) == d \o <<"/", "c", "u", "r", "/">> \o n
\* The name of the file of cur a path returned by Glob stands for.
Base(path) == SubSeq(path, Len(CurPath(<<>>)) + 1, Len(path))

\* The message delivered to the directory dir under the name n.
Msg(dir, n) == <<dir, n>>
\* The mailbox whose directories new and cur hold the files N and C (each a
\* function from names to messages).
Mailbox(N, C) ==
    /\ Separator = DefaultSeparator
    /\ new = N
    /\ cur = C
    /\ delivered = {N[n] : n \in DOMAIN N} \cup {C[n] : n \in DOMAIN C}
\* The same mailbox in a process that has set Separator to sep.
MailboxWith(sep, N, C) ==
    /\ Separator = sep
    /\ new = N
    /\ cur = C
    /\ delivered = {N[n] : n \in DOMAIN N} \cup {C[n] : n \in DOMAIN C}
\* The files delivered under the names S to the directory dir.
Delivered(dir, S) == [n \in S |-> Msg(dir, n)]

\* Every process is outside the package.
InitProcs ==
    /\ pc = [p \in Procs |-> "idle"]
    /\ op = [p \in Procs |-> "none"]
    /\ keyArg = [p \in Procs |-> <<>>]
    /\ infoArg = [p \in Procs |-> <<>>]
    /\ names = [p \in Procs |-> <<>>]
    /\ idx = [p \in Procs |-> 1]
    /\ keys = [p \in Procs |-> <<>>]
    /\ err = [p \in Procs |-> Nil]
    /\ filename = [p \in Procs |-> <<>>]
    /\ failed = [p \in Procs |-> {}]
    /\ ret = [p \in Procs |-> [val |-> <<>>, err |-> Nil]]

\* A slip in the rename: the old name is left in place (a link, no unlink).
RemoveNothing(dir, n) == dir

\* A slip in the rename: the target directory is left with the renamed file
\* alone.
PutAlone(dir, n, m) == [x \in {n} |-> m]

\* The directory dir without the entry n, and with the entry n holding m.
Remove(dir, n) == [x \in DOMAIN dir \ {n} |-> dir[x]]
Put(dir, n, m) == [x \in DOMAIN dir \cup {n} |-> IF x = n THEN m ELSE dir[x]]

\* The errors of the package.
KeyError(k, n) == [type |-> "KeyError", Key |-> k, N |-> n]
FlagError(info, experimental) ==
    [type |-> "FlagError", Info |-> info, Experimental |-> experimental]

\* p may call a method: it is outside the package, or its last call returned.
CanCall(p) == pc[p] \in {"idle", "done"}

\* The frame of a new call: the parameters are set, and the locals of Unseen
\* are those of no call (Unseen sets its own).
Enter(p, method, k, i) ==
    /\ op' = [op EXCEPT ![p] = method]
    /\ keyArg' = [keyArg EXCEPT ![p] = k]
    /\ infoArg' = [infoArg EXCEPT ![p] = i]

NoUnseen(p) ==
    /\ names' = [names EXCEPT ![p] = <<>>]
    /\ idx' = [idx EXCEPT ![p] = 1]
    /\ keys' = [keys EXCEPT ![p] = <<>>]
    /\ failed' = [failed EXCEPT ![p] = {}]

\* return val, e
Return(p, val, e) ==
    /\ pc' = [pc EXCEPT ![p] = "done"]
    /\ ret' = [ret EXCEPT ![p] = [val |-> val, err |-> e]]

---------------------------------------------------------------------------
(* func (d Dir) Unseen() ([]string, error)                                 *)

\* A slip in UnseenTarget: the target is built from the key, not the name.
UnseenTargetFromKey(n) ==
    FieldsFunc(n, Separator)[1] \o <<Separator>> \o <<"2", ",", "S">>

\* A slip in UnseenTarget: the flag S is left out of the info section.
UnseenTargetNoFlag(n) == n \o <<Separator>> \o <<"2", ",">>

\* filepath.Join(string(d), "cur", n+string(Separator)+"2,S"), as a name of cur.
UnseenTarget(n) == n \o <<Separator>> \o <<"2", ",", "S">>

\* n[0] != '.'
NotDotfile(n) == n[1] # "."

\* The failures of the file system a call may meet, as the values a step
\* draws from: an open, a listing or a rename may fail for a reason of its
\* own (TRUE) or not (FALSE).  On a healthy file system none does.
Faulty == BOOLEAN
Healthy == {FALSE}

\* Lines 58-67: new is opened and listed, in any order; either may fail when
\* the file system is one of faults.
UnseenListOn(p, faults) ==
    /\ CanCall(p)
    /\ Enter(p, "Unseen", <<>>, <<>>)
    /\ failed' = [failed EXCEPT ![p] = {}]
    /\ filename' = [filename EXCEPT ![p] = <<>>]
    /\ \E fault \in faults :
        IF ~fault
        THEN /\ \E l \in Listings(DOMAIN new) : names' = [names EXCEPT ![p] = l]
             /\ idx' = [idx EXCEPT ![p] = 1]
             /\ keys' = [keys EXCEPT ![p] = <<>>]
             /\ err' = [err EXCEPT ![p] = Nil]
             /\ pc' = [pc EXCEPT ![p] = "unseen"]
             /\ ret' = [ret EXCEPT ![p] = [val |-> <<>>, err |-> Nil]]
        ELSE /\ names' = [names EXCEPT ![p] = <<>>]
             /\ idx' = [idx EXCEPT ![p] = 1]
             /\ keys' = [keys EXCEPT ![p] = <<>>]
             /\ err' = [err EXCEPT ![p] = IOFailure("open", NewPath(<<>>))]
             /\ Return(p, <<>>, err'[p])
    /\ UNCHANGED <<dirVars, keyVars>>

UnseenList(p) == UnseenListOn(p, Faulty)

\* Lines 68-77: one turn of the loop.  A dotfile is skipped.  For any other
\* name the key is appended, then the file is renamed: the rename fails when
\* the file is no longer in new and may fail for a reason of the file system;
\* when it succeeds it replaces whatever file of cur has the target name.
\* split[0] panics when the name holds no character but separators.
UnseenLoopOn(p, faults) ==
    /\ pc[p] = "unseen"
    /\ idx[p] <= Len(names[p])
    /\ LET n == names[p][idx[p]]
           split == FieldsFunc(n, Separator)
       IN  IF ~NotDotfile(n)
           THEN /\ idx' = [idx EXCEPT ![p] = @ + 1]
                /\ UNCHANGED <<new, cur, pc, keys, err, failed>>
           ELSE IF split = <<>>
           THEN /\ pc' = [pc EXCEPT ![p] = "panic"]
                /\ UNCHANGED <<new, cur, idx, keys, err, failed>>
           ELSE /\ keys' = [keys EXCEPT ![p] = Append(@, split[1])]
                /\ idx' = [idx EXCEPT ![p] = @ + 1]
                /\ \E fails \in faults :
                    IF n \notin DOMAIN new \/ fails
                    THEN /\ err' = [err EXCEPT ![p] = IOFailure("rename", n)]
                         /\ failed' = [failed EXCEPT ![p] = @ \cup {n}]
                         /\ UNCHANGED <<new, cur>>
                    ELSE /\ err' = [err EXCEPT ![p] = Nil]
                         /\ cur' = Put(cur, UnseenTarget(n), new[n])
                         /\ new' = Remove(new, n)
                         /\ UNCHANGED failed
                /\ UNCHANGED pc
    /\ UNCHANGED <<Separator, delivered, op, keyArg, infoArg, names, filename, ret>>
    /\ UNCHANGED keyVars

UnseenLoop(p) == UnseenLoopOn(p, Faulty)

\* Line 78: return keys, err.
UnseenReturn(p) ==
    /\ pc[p] = "unseen"
    /\ idx[p] > Len(names[p])
    /\ Return(p, keys[p], err[p])
    /\ UNCHANGED <<dirVars, op, keyArg, infoArg, names, idx, keys, err, filename, failed>>
    /\ UNCHANGED keyVars

---------------------------------------------------------------------------
(* func (d Dir) Keys() ([]string, error)                                   *)

\* Lines 92-100 on the listing l: the first field of every name that is no
\* dotfile, in the order of the listing.  The names are split on ':' whatever
\* Separator is.
KeysOf(l) ==
    LET s == SelectSeq(l, NotDotfile)
    IN  [i \in 1 .. Len(s) |-> FieldsFunc(s[i], ":")[1]]

\* Lines 83-101: cur is opened and listed, in any order; either may fail.
\* split[0] panics when a name holds no character but ':'.
KeysCall(p) ==
    /\ CanCall(p)
    /\ Enter(p, "Keys", <<>>, <<>>)
    /\ NoUnseen(p)
    /\ filename' = [filename EXCEPT ![p] = <<>>]
    /\ \E ok \in BOOLEAN :
        IF ~ok
        THEN /\ err' = [err EXCEPT ![p] = IOFailure("open", CurPath(<<>>))]
             /\ Return(p, <<>>, err'[p])
        ELSE /\ err' = [err EXCEPT ![p] = Nil]
             /\ \E l \in Listings(DOMAIN cur) :
                 IF \E i \in DOMAIN l : NotDotfile(l[i]) /\ FieldsFunc(l[i], ":") = <<>>
                 THEN /\ pc' = [pc EXCEPT ![p] = "panic"]
                      /\ ret' = [ret EXCEPT ![p] = [val |-> <<>>, err |-> Nil]]
                 ELSE Return(p, KeysOf(l), Nil)
    /\ UNCHANGED <<dirVars, keyVars>>

---------------------------------------------------------------------------
(* func (d Dir) Filename(key string) (string, error)                       *)

\* A slip in Glob: the pattern is the key without the "*".
GlobExact(k) == {CurPath(n) : n \in {x \in DOMAIN cur : x = k}}

\* filepath.Glob(filepath.Join(string(d), "cur", key+"*")) for a key that
\* holds no metacharacter of Glob: the paths of the entries of cur whose
\* name starts with key.  Glob reports no error of the file system.
Glob(k) == {CurPath(n) : n \in {x \in DOMAIN cur : HasPrefix(x, k)}}

\* A slip in Filename: any match is returned when there are several.
FilenameFirstMatch(k) ==
    LET matches == Glob(k)
    IN  IF matches = {} THEN [val |-> <<>>, err |-> KeyError(k, 0)]
        ELSE [val |-> CHOOSE m \in matches : TRUE, err |-> Nil]

\* Lines 106-113: [val, err] as Filename(k) returns them.
Filename(k) ==
    LET matches == Glob(k)
        n == Cardinality(matches)
    IN  IF n # 1 THEN [val |-> <<>>, err |-> KeyError(k, n)]
        ELSE [val |-> CHOOSE m \in matches : TRUE, err |-> Nil]

FilenameCall(p, k) ==
    /\ CanCall(p)
    /\ Enter(p, "Filename", k, <<>>)
    /\ NoUnseen(p)
    /\ filename' = [filename EXCEPT ![p] = <<>>]
    /\ err' = [err EXCEPT ![p] = Filename(k).err]
    /\ Return(p, Filename(k).val, Filename(k).err)
    /\ UNCHANGED <<dirVars, keyVars>>

---------------------------------------------------------------------------
(* func (d Dir) Header(key string) (header mail.Header, err error)         *)
(* func (d Dir) Message(key string), returning a mail.Message and an error *)

\* The error of os.Open for a path that names no file, and the error of the
\* parser (textproto's ReadMIMEHeader, mail.ReadMessage).
NotExist(path) == IOFailure("open: no such file", path)
ParseError == [type |-> "ParseError"]
\* What happens to a file that exists once it is opened: it is read and
\* parsed, or the open or the read fails for a reason of the file system, or
\* the parser rejects the text (the text of a message is not modelled).
ReadOutcomes == {"parsed", "io", "parse"}
\* The value returned for the message m: the header, or the whole message.
Parsed(method, m) == <<method, m>>

\* Lines 118-121 and 138-141: the key is resolved.
Resolve(p, method, k) ==
    /\ Enter(p, method, k, <<>>)
    /\ NoUnseen(p)
    /\ filename' = [filename EXCEPT ![p] = Filename(k).val]
    /\ err' = [err EXCEPT ![p] = Filename(k).err]
    /\ IF Filename(k).err # Nil
       THEN Return(p, <<>>, Filename(k).err)
       ELSE /\ pc' = [pc EXCEPT ![p] = "open"]
            /\ ret' = [ret EXCEPT ![p] = [val |-> <<>>, err |-> Nil]]
    /\ UNCHANGED <<dirVars, keyVars>>

\* Lines 122-133 and 142-156: os.Open(filename), on the path resolved
\* earlier, then the read and the parse.  The open fails when no file of cur
\* has that name any more.
Open(p) ==
    /\ pc[p] = "open"
    /\ LET src == Base(filename[p])
       IN  IF src \notin DOMAIN cur
           THEN err' = [err EXCEPT ![p] = NotExist(filename[p])]
           ELSE \E o \in ReadOutcomes :
                   err' = [err EXCEPT ![p] =
                              CASE o = "parsed" -> Nil
                                [] o = "io" -> IOFailure("read", filename[p])
                                [] o = "parse" -> ParseError]
    /\ Return(p, IF err'[p] = Nil THEN Parsed(op[p], cur[Base(filename[p])]) ELSE <<>>,
              err'[p])
    /\ UNCHANGED <<dirVars, op, keyArg, infoArg, names, idx, keys, filename, failed,
                   keyVars>>

HeaderResolve(p, k) == CanCall(p) /\ Resolve(p, "Header", k)
HeaderOpen(p) == op[p] = "Header" /\ Open(p)
MessageResolve(p, k) == CanCall(p) /\ Resolve(p, "Message", k)
MessageOpen(p) == op[p] = "Message" /\ Open(p)

---------------------------------------------------------------------------
(* func (d Dir) Flags(key string) ([]rune, error)                          *)

\* A slip in Flags: the version is looked at before the form of the section,
\* so that a section such as "1R" counts as experimental.
FlagsOfVersionFirst(path) ==
    LET split == FieldsFunc(path, ":")
    IN  IF Len(split) < 2
        THEN [panic |-> TRUE, val |-> <<>>, err |-> Nil]
        ELSE LET s == split[2]
             IN  IF s[1] = "1"
                 THEN [panic |-> FALSE, val |-> <<>>, err |-> FlagError(s, TRUE)]
                 ELSE IF Len(s) < 2 \/ s[2] # "," \/ s[1] # "2"
                 THEN [panic |-> FALSE, val |-> <<>>, err |-> FlagError(s, FALSE)]
                 ELSE [panic |-> FALSE, val |-> SortRunes(SubSeq(s, 3, Len(s))),
                       err |-> Nil]

\* Lines 171-185 for the path path: [panic, val, err].  The path is split on
\* ':' whatever Separator is; split[1] panics when there is one field only.
FlagsOf(path) ==
    LET split == FieldsFunc(path, ":")
    IN  IF Len(split) < 2
        THEN [panic |-> TRUE, val |-> <<>>, err |-> Nil]
        ELSE LET s == split[2]
             IN  IF Len(s) < 2 \/ s[2] # ","
                 THEN [panic |-> FALSE, val |-> <<>>, err |-> FlagError(s, FALSE)]
                 ELSE IF s[1] = "1"
                 THEN [panic |-> FALSE, val |-> <<>>, err |-> FlagError(s, TRUE)]
                 ELSE IF s[1] # "2"
                 THEN [panic |-> FALSE, val |-> <<>>, err |-> FlagError(s, FALSE)]
                 ELSE [panic |-> FALSE, val |-> SortRunes(SubSeq(s, 3, Len(s))),
                       err |-> Nil]

\* Lines 166-186: [panic, val, err] of Flags(k).
Flags(k) ==
    IF Filename(k).err # Nil
    THEN [panic |-> FALSE, val |-> <<>>, err |-> Filename(k).err]
    ELSE FlagsOf(Filename(k).val)

FlagsCall(p, k) ==
    /\ CanCall(p)
    /\ Enter(p, "Flags", k, <<>>)
    /\ NoUnseen(p)
    /\ filename' = [filename EXCEPT ![p] = Filename(k).val]
    /\ err' = [err EXCEPT ![p] = Filename(k).err]
    /\ IF Flags(k).panic
       THEN /\ pc' = [pc EXCEPT ![p] = "panic"]
            /\ ret' = [ret EXCEPT ![p] = [val |-> <<>>, err |-> Nil]]
       ELSE Return(p, Flags(k).val, Flags(k).err)
    /\ UNCHANGED <<dirVars, keyVars>>

---------------------------------------------------------------------------
(* func (d Dir) SetInfo(key, info string) error                            *)

\* filepath.Join(string(d), "cur", key+string(Separator)+info), as a name of cur.
SetInfoTarget(k, i) == k \o <<Separator>> \o i

\* Lines 191-194: the key is resolved.
SetInfoResolve(p, k, i) ==
    /\ CanCall(p)
    /\ Enter(p, "SetInfo", k, i)
    /\ filename' = [filename EXCEPT ![p] = Filename(k).val]
    /\ err' = [err EXCEPT ![p] = Filename(k).err]
    /\ IF Filename(k).err # Nil
       THEN Return(p, <<>>, Filename(k).err)
       ELSE /\ pc' = [pc EXCEPT ![p] = "setinfo"]
            /\ ret' = [ret EXCEPT ![p] = [val |-> <<>>, err |-> Nil]]
    /\ NoUnseen(p)
    /\ UNCHANGED <<dirVars, keyVars>>

\* Lines 195-197: the rename.  It fails when the resolved file is no longer
\* there and may fail for a reason of the file system; when it succeeds it
\* replaces whatever file of cur has the target name.
SetInfoRename(p) ==
    /\ pc[p] = "setinfo"
    /\ LET src == Base(filename[p])
           target == SetInfoTarget(keyArg[p], infoArg[p])
       IN  \E fails \in BOOLEAN :
            IF src \notin DOMAIN cur \/ fails
            THEN /\ err' = [err EXCEPT ![p] = IOFailure("rename", src)]
                 /\ UNCHANGED cur
            ELSE /\ err' = [err EXCEPT ![p] = Nil]
                 /\ cur' = Put(Remove(cur, src), target, cur[src])
    /\ Return(p, <<>>, err'[p])
    /\ UNCHANGED <<Separator, new, delivered, op, keyArg, infoArg, names, idx, keys,
                   filename, failed, keyVars>>

---------------------------------------------------------------------------
vars == <<keyVars, dirVars, procVars>>

\* The key generator alone: the mailbox is empty and no method of Dir runs.
InitKeyOnly == InitKey /\ Mailbox(<<>>, <<>>) /\ InitProcs

NextKey == (Tick \/ KeyStep) /\ UNCHANGED <<dirVars, procVars>>

SpecKey == InitKeyOnly /\ [][NextKey]_vars

---------------------------------------------------------------------------
(* One caller of Unseen and Filename, on a mailbox nobody else touches.    *)

\* The files a mailbox may start with: in new, two messages of which one key
\* is a prefix of the other, a file whose name has the key of another and an
\* info section already, and a dotfile; in cur, a file whose name is the
\* target of a file in new, and one with a bare key.
SeqNew == {<<"a">>, <<"a", "b">>, <<"a", ":", "1">>, <<".", "t">>}
SeqCur == {<<"a", ":", "2", ",", "S">>, <<"c">>}
\* The keys the caller passes.
SeqKeys == {<<"a">>, <<"a", "b">>, <<"c">>}

InitSeq ==
    /\ InitKey
    /\ \E N \in SUBSET SeqNew, C \in SUBSET SeqCur :
        Mailbox(Delivered("new", N), Delivered("cur", C))
    /\ InitProcs

NextSeq ==
    \/ UnseenList("p1")
    \/ UnseenLoop("p1")
    \/ UnseenReturn("p1")
    \/ \E k \in SeqKeys : FilenameCall("p1", k)

SpecSeq == InitSeq /\ [][NextSeq]_vars

---------------------------------------------------------------------------
(* The flag codec: one caller of SetInfo and Flags on a mailbox whose cur  *)
(* holds one file, with any info section or none.                          *)

\* The sequences over S of length n at most.
SeqsUpTo(S, n) == UNION {[1 .. k -> S] : k \in 0 .. n}

\* The characters of the info section the file starts with.
InfoChars == {"1", "2", ",", "R", "S"}
\* The names the file of cur may start with: the bare key "ab", or the key, a
\* separator and an info section.
FlagsCur ==
    {<<"a", "b">>}
    \cup {<<"a", "b", ":">> \o i : i \in SeqsUpTo(InfoChars, MaxInfoLen)}
\* The keys the caller passes: the key of the file, and a prefix of it.
FlagsKeys == {<<"a">>, <<"a", "b">>}
\* The info sections the caller writes: "2," and flag letters in any order.
FlagLetters == {"R", "S"}
StdInfos == {<<"2", ",">> \o F : F \in SeqsUpTo(FlagLetters, MaxFlags)}

InitFlags ==
    /\ InitKey
    /\ \E n \in FlagsCur : Mailbox(<<>>, [x \in {n} |-> "m"])
    /\ InitProcs

NextFlags ==
    \/ \E k \in FlagsKeys : FlagsCall("p1", k)
    \/ \E k \in FlagsKeys, i \in StdInfos : SetInfoResolve("p1", k, i)
    \/ SetInfoRename("p1")

SpecFlags == InitFlags /\ [][NextFlags]_vars

---------------------------------------------------------------------------
(* Two processes that call Unseen and SetInfo on one mailbox, their steps  *)
(* interleaved in any way.  The messages have pairwise distinct keys.      *)

\* The files new may start with: two messages and a dotfile.
ConcNew == {<<"a">>, <<"a", "b">>, <<".", "t">>}
\* The keys and info sections passed to SetInfo: the keys of the messages.
ConcKeys == {<<"a">>, <<"a", "b">>}
ConcInfos == {<<"2", ",">>, <<"2", ",", "S">>}

Init ==
    /\ InitKey
    /\ \E N \in SUBSET ConcNew : Mailbox(Delivered("new", N), <<>>)
    /\ InitProcs

Next ==
    \E p \in Procs :
        \/ UnseenList(p)
        \/ UnseenLoop(p)
        \/ UnseenReturn(p)
        \/ \E k \in ConcKeys, i \in ConcInfos : SetInfoResolve(p, k, i)
        \/ SetInfoRename(p)

Spec == Init /\ [][Next]_vars

---------------------------------------------------------------------------
(* A writer and a reader: process p1 calls SetInfo while process p2 calls  *)
(* Filename and Flags on the same mailbox.                                 *)

\* The files cur may start with: a message with flags and one with a bare key.
RWCur == {<<"a", "b", ":", "2", ",", "S">>, <<"c">>}
\* The keys both processes pass, and the info sections the writer writes.
RWKeys == {<<"a">>, <<"a", "b">>, <<"c">>}
RWInfos == {<<"2", ",", "S", "R">>, <<"1", ",">>}

InitRW ==
    /\ InitKey
    /\ \E C \in SUBSET RWCur : Mailbox(<<>>, Delivered("cur", C))
    /\ InitProcs

NextRW ==
    \/ \E k \in RWKeys, i \in RWInfos : SetInfoResolve("p1", k, i)
    \/ SetInfoRename("p1")
    \/ \E k \in RWKeys : FilenameCall("p2", k)
    \/ \E k \in RWKeys : FlagsCall("p2", k)

SpecRW == InitRW /\ [][NextRW]_vars

---------------------------------------------------------------------------
(* One caller of Unseen and Keys, in a process that has set Separator to   *)
(* ':' (the default) or to ';' (for a file system that forbids ':').       *)

Separators == {":", ";"}
\* The files the mailbox may start with: in new, two messages and a dotfile;
\* in cur, a message with a bare key and a dotfile.
SepNew == {<<"a">>, <<"a", "b">>, <<".", "t">>}
SepCur == {<<"c">>, <<".", "u">>}

InitSep ==
    /\ InitKey
    /\ \E s \in Separators, N \in SUBSET SepNew, C \in SUBSET SepCur :
        MailboxWith(s, Delivered("new", N), Delivered("cur", C))
    /\ InitProcs

NextSep ==
    \/ UnseenList("p1")
    \/ UnseenLoop("p1")
    \/ UnseenReturn("p1")
    \/ KeysCall("p1")

SpecSep == InitSep /\ [][NextSep]_vars

---------------------------------------------------------------------------
(* Process p1 calls every method of Dir on a mailbox while process p2      *)
(* calls the two that rename files, Unseen and SetInfo.                    *)

\* The files the mailbox may start with: in new, a message and a dotfile; in
\* cur, a message with flags and one with a bare key.
FrameNew == {<<"a">>, <<".", "t">>}
FrameCur == {<<"a", "b", ":", "2", ",", "S">>, <<"c">>}
\* The keys and the info section the callers pass.
FrameKeys == {<<"a">>, <<"c">>}
FrameInfos == {<<"2", ",">>}

InitFrame ==
    /\ InitKey
    /\ \E N \in SUBSET FrameNew, C \in SUBSET FrameCur :
        Mailbox(Delivered("new", N), Delivered("cur", C))
    /\ InitProcs

NextFrame ==
    \/ KeysCall("p1")
    \/ \E k \in FrameKeys : FilenameCall("p1", k)
    \/ \E k \in FrameKeys : FlagsCall("p1", k)
    \/ \E k \in FrameKeys : HeaderResolve("p1", k)
    \/ HeaderOpen("p1")
    \/ \E k \in FrameKeys : MessageResolve("p1", k)
    \/ MessageOpen("p1")
    \/ \E p \in Procs :
        \/ UnseenList(p)
        \/ UnseenLoop(p)
        \/ UnseenReturn(p)
        \/ \E k \in FrameKeys, i \in FrameInfos : SetInfoResolve(p, k, i)
        \/ SetInfoRename(p)

SpecFrame == InitFrame /\ [][NextFrame]_vars

---------------------------------------------------------------------------
(* A writer and a reader of messages: process p1 calls SetInfo while       *)
(* process p2 calls Header and Message.  No file is deleted.               *)

\* The files cur may start with: a message with flags and one with a bare key.
ReadCur == {<<"a", "b", ":", "2", ",", "S">>, <<"c">>}
\* The keys both processes pass (whole keys), and the info sections written.
ReadKeys == {<<"a", "b">>, <<"c">>}
ReadInfos == {<<"2", ",">>, <<"2", ",", "R">>}

InitRead ==
    /\ InitKey
    /\ \E C \in SUBSET ReadCur : Mailbox(<<>>, Delivered("cur", C))
    /\ InitProcs

NextRead ==
    \/ \E k \in ReadKeys, i \in ReadInfos : SetInfoResolve("p1", k, i)
    \/ SetInfoRename("p1")
    \/ \E k \in ReadKeys : HeaderResolve("p2", k)
    \/ HeaderOpen("p2")
    \/ \E k \in ReadKeys : MessageResolve("p2", k)
    \/ MessageOpen("p2")

SpecRead == InitRead /\ [][NextRead]_vars

---------------------------------------------------------------------------
(* Two processes that each call Unseen once on one mailbox, on a healthy   *)
(* file system: new can be listed, and a rename fails only when the file   *)
(* is no longer in new.  Nothing is delivered meanwhile.                   *)

\* The files the mailbox may start with: in new, three messages named by
\* their keys and a dotfile; in cur, a message with a bare key.
TwoNew == {<<"a">>, <<"a", "b">>, <<"c">>, <<".", "t">>}
TwoCur == {<<"e">>}

InitTwo ==
    /\ InitKey
    /\ \E N \in SUBSET TwoNew, C \in SUBSET TwoCur :
        Mailbox(Delivered("new", N), Delivered("cur", C))
    /\ InitProcs

NextTwo ==
    \E p \in Procs :
        \/ pc[p] = "idle" /\ UnseenListOn(p, Healthy)
        \/ UnseenLoopOn(p, Healthy)
        \/ UnseenReturn(p)

SpecTwo == InitTwo /\ [][NextTwo]_vars

---------------------------------------------------------------------------
(* One caller of Unseen, SetInfo and Keys, who passes the keys Keys has    *)
(* returned to Filename.                                                   *)

\* The files new may start with: three messages named by their keys, one key
\* a proper prefix of another, and a dotfile.
ListNew == {<<"a">>, <<"a", "b">>, <<"c", "e">>, <<".", "t">>}
\* The keys and the info section passed to SetInfo: whole keys and a prefix.
ListKeys == {<<"a">>, <<"a", "b">>, <<"c">>, <<"c", "e">>}
ListInfos == {<<"2", ",">>}

InitList ==
    /\ InitKey
    /\ \E N \in SUBSET ListNew : Mailbox(Delivered("new", N), <<>>)
    /\ InitProcs

NextList ==
    \/ UnseenList("p1")
    \/ UnseenLoop("p1")
    \/ UnseenReturn("p1")
    \/ \E k \in ListKeys, i \in ListInfos : SetInfoResolve("p1", k, i)
    \/ SetInfoRename("p1")
    \/ KeysCall("p1")
    \/ /\ op["p1"] = "Keys"
       /\ ret["p1"].err = Nil
       /\ \E i \in DOMAIN ret["p1"].val : FilenameCall("p1", ret["p1"].val[i])

SpecList == InitList /\ [][NextList]_vars

---------------------------------------------------------------------------
(* The claims.                                                             *)

\* C1: the keys returned by concurrent calls of Key in one process are
\* pairwise distinct.
C1_KeysDistinct ==
    \A g, h \in Calls :
        (/\ g # h
         /\ kpc[g] = "done" /\ kret[g].err = Nil
         /\ kpc[h] = "done" /\ kret[h].err = Nil)
        => kret[g].key # kret[h].key

\* The text of a name before its first separator (the whole name when it has
\* none), and the set of the elements of a sequence.
BeforeSeparator(n) ==
    LET I == {i \in 1 .. Len(n) : n[i] = Separator}
    IN  IF I = {} THEN n
        ELSE SubSeq(n, 1, (CHOOSE i \in I : \A j \in I : i <= j) - 1)
Range(f) == {f[i] : i \in DOMAIN f}
StartsWith(n, k) == \E i \in 0 .. Len(n) : SubSeq(n, 1, i) = k

\* p's call of Unseen has returned, after listing new and with no rename failed.
UnseenSucceeded(p) ==
    /\ pc[p] = "done"
    /\ op[p] = "Unseen"
    /\ ret[p].err = Nil
    /\ failed[p] = {}

\* C2: when Unseen runs alone and every rename succeeds, then on return no
\* file of new but dotfiles is left, every file listed under a name n that is
\* no dotfile is the file of cur named n + Separator + "2,S", the dotfiles are
\* where they were, and the returned list holds one key for each migrated
\* file: the text of its name before the separator.
C2_UnseenMigratesAll ==
    \A p \in Procs : UnseenSucceeded(p) =>
        LET listed == Range(names[p])
            moved == {n \in listed : n[1] # "."}
        IN  /\ \A n \in DOMAIN new : n[1] = "."
            /\ \A n \in moved :
                /\ n \o <<Separator, "2", ",", "S">> \in DOMAIN cur
                /\ cur[n \o <<Separator, "2", ",", "S">>] = Msg("new", n)
            /\ \A n \in listed \ moved : n \in DOMAIN new /\ new[n] = Msg("new", n)
            /\ Len(ret[p].val) = Cardinality(moved)
            /\ \A n \in moved :
                Cardinality({i \in DOMAIN ret[p].val :
                                ret[p].val[i] = BeforeSeparator(n)})
                = Cardinality({m \in moved : BeforeSeparator(m) = BeforeSeparator(n)})

\* C2's case: a successful Unseen that listed a dotfile and three other
\* files, one of them with a separator in its name.
C2_Witness ==
    \E p \in Procs :
        /\ UnseenSucceeded(p)
        /\ Range(names[p]) = SeqNew
        /\ Len(ret[p].val) = 3

\* C3: if a rename fails during Unseen, the error returned is not nil and is
\* that of a failed rename, wherever the failing file stands in the listing,
\* and every other listed file is migrated.
C3_RenameFailureReturned ==
    \A p \in Procs : (pc[p] = "done" /\ op[p] = "Unseen" /\ failed[p] # {}) =>
        /\ ret[p].err # Nil
        /\ ret[p].err.path \in failed[p]
        /\ \A n \in Range(names[p]) \ failed[p] :
            n[1] # "." => n \o <<Separator, "2", ",", "S">> \in DOMAIN cur

\* C4: Filename(key) returns a path exactly when one entry of cur has a name
\* starting with key, and that entry's path; otherwise it returns
\* KeyError{key, n}, n the number of entries of cur whose name starts with
\* key.
C4_FilenameUniqueOrKeyError ==
    \A p \in Procs : (pc[p] = "done" /\ op[p] = "Filename") =>
        LET M == {n \in DOMAIN cur : StartsWith(n, keyArg[p])}
        IN  IF Cardinality(M) = 1
            THEN /\ ret[p].err = Nil
                 /\ \E n \in M : ret[p].val = d \o <<"/", "c", "u", "r", "/">> \o n
            ELSE /\ ret[p].val = <<>>
                 /\ ret[p].err = [type |-> "KeyError", Key |-> keyArg[p],
                                  N |-> Cardinality(M)]

\* C4's case: the key "a" is the whole key of one message of cur and a prefix
\* of the key "ab" of another, and Filename("a") returned KeyError{"a", 2}.
C4_Witness ==
    \E p \in Procs :
        /\ pc[p] = "done"
        /\ op[p] = "Filename"
        /\ keyArg[p] = <<"a">>
        /\ DOMAIN cur = {<<"a", ":", "2", ",", "S">>, <<"a", "b", ":", "2", ",", "S">>}
        /\ ret[p].err = [type |-> "KeyError", Key |-> <<"a">>, N |-> 2]

\* C5: in every state reached by interleaved calls of Unseen and SetInfo,
\* each delivered message is held by exactly one file, of new or of cur.
C5_EachMessageInOneFile ==
    \A m \in delivered :
        Cardinality({n \in DOMAIN new : new[n] = m})
        + Cardinality({n \in DOMAIN cur : cur[n] = m}) = 1

\* The info section of a name: the text after its first separator (empty when
\* the name has no separator).
InfoSection(n) ==
    LET I == {i \in 1 .. Len(n) : n[i] = Separator}
    IN  IF I = {} THEN <<>>
        ELSE SubSeq(n, (CHOOSE i \in I : \A j \in I : i <= j) + 1, Len(n))
HasSeparator(n) == \E i \in 1 .. Len(n) : n[i] = Separator
\* The file of cur p's key resolves to, when it resolves to one.
Resolved(p) ==
    LET M == {n \in DOMAIN cur : StartsWith(n, keyArg[p])}
    IN  IF Cardinality(M) = 1 THEN M ELSE {}
\* s is in ascending order; s and t hold the same characters as often.
Ascending(s) == \A i \in 1 .. Len(s) - 1 : Code(s[i]) <= Code(s[i + 1])
SameLetters(s, t) ==
    /\ Len(s) = Len(t)
    /\ \A c \in Range(s) \cup Range(t) :
        Cardinality({i \in DOMAIN s : s[i] = c}) = Cardinality({i \in DOMAIN t : t[i] = c})
\* p's call of Flags has ended, by a return or by a panic.
FlagsEnded(p) == pc[p] \in {"done", "panic"} /\ op[p] = "Flags"

\* What a reader gets from the method m when the key resolves to path.
OutcomeFor(m, path) ==
    IF m = "Filename" THEN [pc |-> "done", ret |-> [val |-> path, err |-> Nil]]
    ELSE [pc |-> IF FlagsOf(path).panic THEN "panic" ELSE "done",
          ret |-> [val |-> FlagsOf(path).val, err |-> FlagsOf(path).err]]
\* The writer w is in a call SetInfo(key, info) that has resolved its key: it
\* is about to rename, or has just renamed and returned.
InSetInfo(w) ==
    /\ op[w] = "SetInfo"
    /\ pc[w] \in {"setinfo", "done"}
    /\ filename[w] # <<>>

\* C6: a call Filename(key) or Flags(key) made by a reader while a writer is
\* in SetInfo(key, info) gets the result for the old filename (the one the
\* writer resolved) or for the new one (key + Separator + info), and nothing
\* else: no KeyError, no other path, no other flags.
C6_ReaderSeesOldOrNew ==
    [][\A r, w \in Procs :
        (/\ r # w
         /\ InSetInfo(w)
         /\ <<pc[r], op[r], keyArg[r], ret[r]>>' # <<pc[r], op[r], keyArg[r], ret[r]>>
         /\ op'[r] \in {"Filename", "Flags"}
         /\ keyArg'[r] = keyArg[w])
        => [pc |-> pc'[r], ret |-> ret'[r]]
           \in {OutcomeFor(op'[r], filename[w]),
                OutcomeFor(op'[r], d \o <<"/", "c", "u", "r", "/">> \o keyArg[w]
                                     \o <<Separator>> \o infoArg[w])}]_vars

\* C6's case: the writer has resolved "ab" and is about to rename the file to
\* "ab:2,SR", and the reader's Flags("ab") returned the old flags.
C6_Witness ==
    /\ pc["p1"] = "setinfo"
    /\ keyArg["p1"] = <<"a", "b">>
    /\ infoArg["p1"] = <<"2", ",", "S", "R">>
    /\ pc["p2"] = "done" /\ op["p2"] = "Flags" /\ keyArg["p2"] = <<"a", "b">>
    /\ ret["p2"] = [val |-> <<"S">>, err |-> Nil]

C8_BareKeyHasNoFlags ==
    \A p \in Procs : FlagsEnded(p) =>
        \A n \in Resolved(p) : ~HasSeparator(n) =>
            (pc[p] = "done" /\ ret[p] = [val |-> <<>>, err |-> Nil])

\* C9: when SetInfo(key, "2," + F) has succeeded, Flags(key) called next
\* returns the letters of F in ascending order, and no error.
C9_SetInfoThenFlags ==
    [][\A p \in Procs :
        (/\ pc[p] = "done" /\ op[p] = "SetInfo" /\ ret[p].err = Nil
         /\ HasPrefix(infoArg[p], <<"2", ",">>)
         /\ op'[p] = "Flags" /\ keyArg'[p] = keyArg[p])
        => (/\ pc'[p] = "done"
            /\ ret'[p].err = Nil
            /\ Ascending(ret'[p].val)
            /\ SameLetters(ret'[p].val, SubSeq(infoArg[p], 3, Len(infoArg[p]))))]_vars

\* C9's case: the flags were written as "2,SR" and Flags returned R, S.
C9_Witness ==
    \E p \in Procs :
        /\ pc[p] = "done"
        /\ op[p] = "Flags"
        /\ keyArg[p] \o <<Separator, "2", ",", "S", "R">> \in DOMAIN cur
        /\ ret[p] = [val |-> <<"R", "S">>, err |-> Nil]

\* C10: a call of Key whose hostname lookup or whose read of random bytes
\* failed returns an error and the empty string.
C10_FailureReturnsError ==
    \A g \in Calls :
        (kpc[g] = "done" /\ (hostErr[g] # Nil \/ readErr[g] # Nil))
        => (kret[g].err # Nil /\ kret[g].key = <<>>)

\* C11: the key returned by Key holds neither the character '/' nor the
\* separator ':', whatever the host name is: both are escaped in the host
\* field.
C11_KeyHasNoReservedChar ==
    \A g \in Calls :
        (kpc[g] = "done" /\ kret[g].err = Nil)
        => \A i \in 1 .. Len(kret[g].key) : kret[g].key[i] \notin {"/", ":"}

\* C12: whatever Separator is set to, a call of Keys that returns no error
\* returns, for each entry of cur that is no dotfile, the text of its name
\* before the first Separator; and when the caller's previous call was an
\* Unseen that succeeded, every key that Unseen returned is among them.
C12_KeysSplitOnSeparator ==
    [][\A p \in Procs :
        (/\ CanCall(p)
         /\ op'[p] = "Keys" /\ pc'[p] = "done" /\ ret'[p].err = Nil)
        => (/\ Len(ret'[p].val) = Cardinality({n \in DOMAIN cur : n[1] # "."})
            /\ Range(ret'[p].val)
               = {BeforeSeparator(n) : n \in {x \in DOMAIN cur : x[1] # "."}}
            /\ UnseenSucceeded(p) => Range(ret[p].val) \subseteq Range(ret'[p].val))]_vars

\* The step is one of process p: something of p's own state changes.
Stepped(p) ==
    <<pc[p], op[p], keyArg[p], infoArg[p], names[p], idx[p], keys[p], err[p],
      filename[p], failed[p], ret[p]>>'
    # <<pc[p], op[p], keyArg[p], infoArg[p], names[p], idx[p], keys[p], err[p],
        filename[p], failed[p], ret[p]>>
ReadMethods == {"Keys", "Filename", "Flags", "Header", "Message"}

\* C13: only a step of Unseen changes the files of new; a step of Keys,
\* Filename, Flags, Header or Message changes neither new nor cur; a step of
\* SetInfo leaves new as it is and changes the name of one file of cur at
\* most: one name at most goes, one name at most comes or gets another
\* message, and every other file stays.
C13_OnlyUnseenTouchesNew ==
    [][/\ new' # new => \E p \in Procs : Stepped(p) /\ op'[p] = "Unseen"
       /\ \A p \in Procs :
            (Stepped(p) /\ op'[p] \in ReadMethods) => (new' = new /\ cur' = cur)
       /\ \A p \in Procs :
            (Stepped(p) /\ op'[p] = "SetInfo") =>
                /\ new' = new
                /\ Cardinality(DOMAIN cur \ DOMAIN cur') <= 1
                /\ Cardinality({n \in DOMAIN cur' :
                                   n \notin DOMAIN cur \/ cur'[n] # cur[n]}) <= 1]_vars

\* C13's case: SetInfo has renamed the file "c" to "c:2," while new holds a
\* message and cur another file, and the caller of Message has its result.
C13_Witness ==
    /\ DOMAIN new = {<<"a">>, <<".", "t">>}
    /\ DOMAIN cur = {<<"a", "b", ":", "2", ",", "S">>, <<"c", ":", "2", ",">>}
    /\ \E p, q \in Procs :
        /\ pc[p] = "done" /\ op[p] = "SetInfo" /\ ret[p].err = Nil
        /\ pc[q] = "done" /\ op[q] = "Message" /\ ret[q].err = Nil

\* C14: the counter is read and incremented as one step: no two calls of Key
\* embed the same value of the counter in their keys, and when n calls have
\* passed the increment the counter is 10000 + n.
C14_CounterReadAndIncrementedAtomically ==
    /\ \A g, h \in Calls :
        (g # h /\ kpc[g] \in {"addid", "random", "done"} /\ idRead[g] # 0
               /\ kpc[h] \in {"addid", "random", "done"} /\ idRead[h] # 0)
        => idRead[g] # idRead[h]
    /\ id = 10000 + Cardinality({g \in Calls : kpc[g] \in {"random", "done"}
                                                /\ idRead[g] # 0})

\* C15: a caller that calls Unseen again until it returns a nil error has
\* every message of new moved to cur in the end; in particular, whenever a
\* call of Unseen that runs alone (no delivery, no other caller) has returned
\* a nil error, new holds no file but dotfiles.
C15_NilReturnLeavesNewEmpty ==
    \A p \in Procs :
        (pc[p] = "done" /\ op[p] = "Unseen" /\ ret[p].err = Nil)
        => \A n \in DOMAIN new : n[1] = "."

\* C16: the list a call of Unseen returns holds one key for each file the
\* call moved from new to cur and nothing else: a listed file whose rename
\* failed gives no key.
C16_ReturnedKeysAreMovedKeys ==
    \A p \in Procs : (pc[p] = "done" /\ op[p] = "Unseen") =>
        LET moved == {n \in Range(names[p]) : n[1] # "." /\ n \notin failed[p]}
        IN  /\ Len(ret[p].val) = Cardinality(moved)
            /\ Range(ret[p].val) = {BeforeSeparator(n) : n \in moved}

\* C17: a SetInfo that succeeds leaves the key of the message as it is: the
\* name the file has after the rename has the same text before its first
\* separator as the name it had before, also when the key passed is a proper
\* prefix of the message's key.
C17_SetInfoKeepsKey ==
    [][\A p \in Procs :
        (pc[p] = "setinfo" /\ pc'[p] = "done" /\ ret'[p].err = Nil)
        => \A n \in DOMAIN cur' :
            cur'[n] = cur[Base(filename[p])]
            => BeforeSeparator(n) = BeforeSeparator(Base(filename[p]))]_vars

\* C18: while another process changes flags with SetInfo and no file is
\* deleted, Header(key) and Message(key) return the parsed result or fail
\* with KeyError or ParseError (or with a failure of the file system on a
\* file that is there): they never fail because the file resolved by the
\* lookup has no longer that name when it is opened.
C18_ReadNeverFailsOnRename ==
    \A p \in Procs : (pc[p] = "done" /\ op[p] \in {"Header", "Message"}) =>
        \/ ret[p].err.type \in {"nil", "KeyError", "ParseError"}
        \/ ret[p].err.type = "IOFailure" /\ ret[p].err.op = "read"

\* The messages that were in new: those delivered there under a name that
\* is no dotfile.
WereNew == {m \in delivered : m[1] = "new" /\ m[2][1] # "."}

\* C19: when two processes have each run Unseen on the mailbox and both
\* have returned, every message that was in new is held by exactly one file,
\* the file of cur named key + Separator + "2,S"; new holds no file but
\* dotfiles; and the key of each such message is in the list returned to one
\* of the two callers at least.
C19_TwoUnseenMoveEachOnce ==
    (\A p \in Procs : pc[p] = "done" /\ op[p] = "Unseen") =>
        /\ \A n \in DOMAIN new : n[1] = "."
        /\ \A m \in WereNew :
            /\ {n \in DOMAIN cur : cur[n] = m} = {m[2] \o <<Separator, "2", ",", "S">>}
            /\ \E p \in Procs : m[2] \in Range(ret[p].val)

\* C19's case: both callers listed the three messages before either moved
\* one, both have returned, and each moved one message at least, so that a
\* rename of each failed on a file the other had moved.
C19_Witness ==
    /\ \A p \in Procs :
        /\ pc[p] = "done" /\ op[p] = "Unseen"
        /\ Range(names[p]) = TwoNew
        /\ failed[p] # {}
    /\ failed["p1"] \cup failed["p2"] = {<<"a">>, <<"a", "b">>, <<"c">>}

\* The names of the message files of the mailbox (no dotfiles), and their keys.
MessageNames(dir) == {n \in DOMAIN dir : n[1] # "."}
\* The messages have pairwise distinct keys.
DistinctKeys ==
    /\ \A n \in MessageNames(new), m \in MessageNames(cur) :
        BeforeSeparator(n) # BeforeSeparator(m)
    /\ \A n, m \in MessageNames(new) : n # m => BeforeSeparator(n) # BeforeSeparator(m)
    /\ \A n, m \in MessageNames(cur) : n # m => BeforeSeparator(n) # BeforeSeparator(m)
\* No key is a proper prefix of the key of another message.
PrefixFreeKeys ==
    \A n, m \in MessageNames(new) \cup MessageNames(cur) :
        StartsWith(BeforeSeparator(n), BeforeSeparator(m))
        => BeforeSeparator(n) = BeforeSeparator(m)
\* p passes to Filename a key that its call of Keys has just returned, and
\* Filename resolves it to the one file of cur that has this key.
KeysThenFilename(p) ==
    (/\ pc[p] = "done" /\ op[p] = "Keys" /\ ret[p].err = Nil
     /\ op'[p] = "Filename" /\ keyArg'[p] \in Range(ret[p].val))
    => /\ pc'[p] = "done"
       /\ ret'[p].err = Nil
       /\ \E n \in MessageNames(cur) :
            /\ BeforeSeparator(n) = keyArg'[p]
            /\ ret'[p].val = d \o <<"/", "c", "u", "r", "/">> \o n

=============================================================================
